---- MODULE Spec2Model ----
(***************************************************************************)
(* Model of the service supervision core of daemonproxy (src/service.c):   *)
(* the service records, the name and PID indices, the active and sigwake   *)
(* lists, the per-service state machine, the signal sweep, and the packed  *)
(* variable buffer.                                                        *)
(*                                                                         *)
(* Every C function is an operator that maps a machine state m (a record   *)
(* of all globals and all service records) to the machine state after the  *)
(* call; m.ret carries the return value.  The actions of Next are the      *)
(* public entry points, called from the main loop, applied to the current  *)
(* state.                                                                  *)
(*                                                                         *)
(* Times are 32.32 fixed-point in the source.  The model scales them: one  *)
(* second (1<<32) is Sec units, so `x >> 32` is `x \div Sec`.  All times   *)
(* stay far below 2^63, so the source's wrap-safe comparisons              *)
(* `a - b > 0` are plain integer comparisons.                              *)
(***************************************************************************)
EXTENDS Integers, Sequences, FiniteSets, TLC

(***************************************************************************)
(* Bounds of the model                                                     *)
(***************************************************************************)
MaxTime == 2           \* the wake clock runs from 0 to MaxTime
MaxPid == 1            \* the OS hands out pids 1..MaxPid (one more in SpecTwo)

\* The memory that can hold a service record.
Slots == {1, 2}

(***************************************************************************)
(* Program constants                                                       *)
(***************************************************************************)
SVC_STATE_UNDEF == 0
SVC_STATE_DOWN == 1
SVC_STATE_START == 2
SVC_STATE_UP == 3
SVC_STATE_REAPED == 4

NULL == 0              \* the null service pointer
\* A prev_ptr is NULL, the address of the list head (HEAD), or the address
\* of the next field of record k (the value k).
HEAD == -1

\* One second of fixed-point time (1<<32 in the source), scaled.
Sec == 2
\* config.h; a whole number of seconds.
FORK_RETRY_DELAY == Sec
\* The main loop sleeps at most this long (it resets wake->next each pass).
MaxSleep == 8

\* Signals known to sig_num_by_name.
SIGHUP == 1
SIGINT == 2
Signals == {SIGHUP, SIGINT}

\* Characters.  A string is a sequence of symbols; a word symbol stands for
\* the characters of that word, so <<"always", TAB, "SIGHUP">> is the
\* string "always\tSIGHUP" and <<"always", "SIGHUP">> is "alwaysSIGHUP".
TAB == "<TAB>"
NUL == "<NUL>"
EQ == "="
JUNK == "<?>"          \* a byte of uninitialised memory

VARIABLES
    svc,                  \* slot -> struct service_s
    svc_list,             \* the allocated slots (svc_list[0..svc_list_count))
    svc_pool_size_each,   \* size of a pool slot; 0 when svc_pool is NULL
    svc_by_name_index,    \* slots whose name_index_node is in the tree
    svc_by_pid_index,     \* slots whose pid_index_node is in the tree
    svc_active_list,      \* head of the active list
    svc_sigwake_list,     \* head of the sigwake list
    svc_last_signal_ts,
    wake,                 \* [now, next]: the wake clock
    sig_events,           \* the signal-event source: signum -> ts (0: none)
    children,             \* pids of forked children not yet reaped
    hist,                 \* history: slot -> launch history of the record
    child                 \* the forked child on its way through svc_do_exec

vars == <<svc, svc_list, svc_pool_size_each, svc_by_name_index, svc_by_pid_index,
          svc_active_list, svc_sigwake_list, svc_last_signal_ts, wake,
          sig_events, children, hist, child>>

\* The memory of a slot that holds no record.
NoSvc ==
    [state |-> SVC_STATE_UNDEF, name |-> <<>>, vars |-> <<>>,
     active_prev_ptr |-> NULL, active_next |-> NULL,
     sigwake_prev_ptr |-> NULL, sigwake_next |-> NULL,
     pid |-> 0, auto_restart |-> FALSE, sigwake |-> FALSE,
     wait_status |-> 0, start_time |-> 0, reap_time |-> 0,
     restart_interval |-> 0, autostart_signals |-> {},
     uses_control_event |-> FALSE, uses_control_cmd |-> FALSE,
     uses_control_socket |-> FALSE]

NoHist == [launched |-> -1, trig_only |-> FALSE, short_gap |-> FALSE]

\* No child is in svc_do_exec.
NoChild ==
    [pc |-> "none", fd_spec |-> <<>>, fdnum |-> <<>>, files |-> <<>>,
     fd_count |-> 0, fd_list |-> <<>>, i |-> 0, want |-> <<>>,
     kept |-> TRUE]

\* The machine state as one record.
St ==
    [svc |-> svc, svc_list |-> svc_list,
     pool_size_each |-> svc_pool_size_each,
     name_index |-> svc_by_name_index, pid_index |-> svc_by_pid_index,
     active_list |-> svc_active_list, sigwake_list |-> svc_sigwake_list,
     last_signal_ts |-> svc_last_signal_ts, wake |-> wake,
     sig_events |-> sig_events, children |-> children,
     hist |-> hist,
     cause |-> {}, killed |-> 0, ret |-> FALSE, visited |-> <<>>,
     forks |-> 0, ctl |-> 0, ctl_fds |-> {}, open_fds |-> {}]


(***************************************************************************)
(* Strings (strseg_t) and the signal names                                 *)
(***************************************************************************)

\* Position of the first sep in str, or Len(str)+1 when there is none.
RECURSIVE SepPos(_, _, _)
SepPos(str, sep, i) ==
    IF i > Len(str) THEN i
    ELSE IF str[i] = sep THEN i
    ELSE SepPos(str, sep, i + 1)

\* strseg_tok_next: the token up to the first sep, and what is left after
\* it.  `more` is false when the string had no sep (the source leaves a
\* segment of length -1, and the next call returns false).
TokNext(str, sep) ==
    LET k == SepPos(str, sep, 1) IN
    [tok |-> SubSeq(str, 1, k - 1),
     rest |-> SubSeq(str, k + 1, Len(str)),
     more |-> k <= Len(str)]

\* The tokens successive strseg_tok_next calls yield, in order.
RECURSIVE Tokens(_, _)
Tokens(str, sep) ==
    LET t == TokNext(str, sep) IN
    IF t.more THEN <<t.tok>> \o Tokens(t.rest, sep) ELSE <<t.tok>>

\* sig_num_by_name: the number of a signal name, 0 when it names none.
sig_num_by_name(name) ==
    IF name = <<"SIGHUP">> THEN SIGHUP
    ELSE IF name = <<"SIGINT">> THEN SIGINT
    ELSE 0

(***************************************************************************)
(* The two intrusive lists                                                 *)
(***************************************************************************)

svc_set_active(m, s, activate) ==
    LET r == m.svc[s] IN
    IF activate /\ r.active_prev_ptr = NULL THEN
        LET h == m.active_list
            s1 == [m.svc EXCEPT ![s].active_prev_ptr = HEAD,
                                ![s].active_next = h]
            s2 == IF h # NULL THEN [s1 EXCEPT ![h].active_prev_ptr = s]
                  ELSE s1
        IN [m EXCEPT !.svc = s2, !.active_list = s]
    ELSE IF ~activate /\ r.active_prev_ptr # NULL THEN
        LET n == r.active_next
            p == r.active_prev_ptr
            s1 == IF n # NULL THEN [m.svc EXCEPT ![n].active_prev_ptr = p]
                  ELSE m.svc
            \* *svc->active_prev_ptr= svc->active_next
            s2 == IF p = HEAD THEN s1 ELSE [s1 EXCEPT ![p].active_next = n]
            s3 == [s2 EXCEPT ![s].active_prev_ptr = NULL]
        IN [m EXCEPT !.svc = s3,
                     !.active_list = IF p = HEAD THEN n ELSE @]
    ELSE m

svc_set_sigwake(m, s, sigwake) ==
    LET m0 == [m EXCEPT !.svc[s].sigwake = sigwake]
        r == m0.svc[s]
    IN
    IF sigwake /\ r.sigwake_prev_ptr = NULL THEN
        LET h == m0.sigwake_list
            s1 == [m0.svc EXCEPT ![s].sigwake_next = h]
            s2 == IF h # NULL THEN [s1 EXCEPT ![h].sigwake_prev_ptr = s]
                  ELSE s1
            s3 == [s2 EXCEPT ![s].sigwake_prev_ptr = HEAD]
        IN [m0 EXCEPT !.svc = s3, !.sigwake_list = s]
    ELSE IF ~sigwake /\ r.sigwake_prev_ptr # NULL THEN
        LET n == r.sigwake_next
            p == r.sigwake_prev_ptr
            s1 == IF n # NULL THEN [m0.svc EXCEPT ![n].sigwake_prev_ptr = p]
                  ELSE m0.svc
            s2 == IF p = HEAD THEN s1 ELSE [s1 EXCEPT ![p].sigwake_next = n]
            s3 == [s2 EXCEPT ![s].sigwake_prev_ptr = NULL]
        IN [m0 EXCEPT !.svc = s3,
                      !.sigwake_list = IF p = HEAD THEN n ELSE @]
    ELSE m0

\* The records reached from a list head by following next pointers.
RECURSIVE ActiveFrom(_, _, _)
ActiveFrom(m, p, fuel) ==
    IF p = NULL \/ fuel = 0 THEN <<>>
    ELSE <<p>> \o ActiveFrom(m, m.svc[p].active_next, fuel - 1)

RECURSIVE SigwakeFrom(_, _, _)
SigwakeFrom(m, p, fuel) ==
    IF p = NULL \/ fuel = 0 THEN <<>>
    ELSE <<p>> \o SigwakeFrom(m, m.svc[p].sigwake_next, fuel - 1)

Range(seq) == {seq[i] : i \in 1..Len(seq)}
ActiveSeq(m) == ActiveFrom(m, m.active_list, Cardinality(Slots) + 1)
SigwakeSeq(m) == SigwakeFrom(m, m.sigwake_list, Cardinality(Slots) + 1)
OnActive(m, s) == s \in Range(ActiveSeq(m))
OnSigwake(m, s) == s \in Range(SigwakeSeq(m))

(***************************************************************************)
(* The PID index                                                           *)
(***************************************************************************)

svc_change_pid(m, s, pid) ==
    LET i1 == IF m.svc[s].pid # 0 THEN m.pid_index \ {s} ELSE m.pid_index
        i2 == IF pid # 0 THEN i1 \cup {s} ELSE i1
    IN [m EXCEPT !.svc[s].pid = pid, !.pid_index = i2]

\* svc_by_pid: the records RBTree_Find may return for a key (the tree does
\* not reject equal keys, and which of several equal nodes the search meets
\* first depends on the shape of the tree).
svc_by_pid(m, pid) == {s \in m.pid_index : m.svc[s].pid = pid}

\* ctl_notify_svc_state goes to the controllers' output; it changes nothing
\* of the service core.
svc_notify_state(m, s) == m


(***************************************************************************)
(* The signal-event source (signal.c, consumed through                     *)
(* sig_get_new_events): it holds, per signal, the time stamp of its last   *)
(* receipt, and hands out the events after a time stamp in time order.     *)
(***************************************************************************)

sig_get_new_events(m, since) ==
    LET later == {g \in Signals : m.sig_events[g] - since > 0 /\ m.sig_events[g] # 0}
    IN  IF later = {} THEN [ok |-> FALSE, signum |-> 0, ts |-> since]
        ELSE LET g == CHOOSE x \in later :
                          \A y \in later : m.sig_events[x] <= m.sig_events[y]
             IN [ok |-> TRUE, signum |-> g, ts |-> m.sig_events[g]]

\* The loop of svc_check_sigwake, from time stamp sig_ts on.
RECURSIVE CheckSigwakeFrom(_, _, _)
CheckSigwakeFrom(m, s, sig_ts) ==
    LET e == sig_get_new_events(m, sig_ts) IN
    IF ~e.ok THEN [hit |-> FALSE, signum |-> 0, ts |-> 0]
    ELSE IF e.signum \in m.svc[s].autostart_signals
         THEN [hit |-> TRUE, signum |-> e.signum, ts |-> e.ts]
    ELSE CheckSigwakeFrom(m, s, e.ts)

\* svc_check_sigwake, with the event it returned true on.
CheckSigwake(m, s) ==
    IF ~m.svc[s].sigwake THEN [hit |-> FALSE, signum |-> 0, ts |-> 0]
    ELSE CheckSigwakeFrom(m, s, 0)

svc_check_sigwake(m, s) == CheckSigwake(m, s).hit

(***************************************************************************)
(* Administrative operations on one record                                 *)
(***************************************************************************)

\* Variant of svc_handle_start that stores the start time as computed, a
\* zero included.
svc_handle_start_nobias(m, s, when) ==
    LET r == m.svc[s] IN
    IF r.state # SVC_STATE_DOWN /\ r.state # SVC_STATE_START
    THEN [m EXCEPT !.ret = FALSE]
    ELSE
        LET w == IF when - m.wake.now > 0 THEN when ELSE m.wake.now
            m1 == [m EXCEPT !.svc[s].state = SVC_STATE_START,
                            !.svc[s].start_time = w]
            m2 == svc_change_pid(m1, s, 0)
            m3 == [m2 EXCEPT !.svc[s].reap_time = 0,
                             !.svc[s].wait_status = -1]
            m4 == svc_set_active(m3, s, TRUE)
            m5 == svc_notify_state(m4, s)
        IN [m5 EXCEPT !.wake.next = m5.wake.now, !.ret = TRUE]

svc_handle_start(m, s, when) ==
    LET r == m.svc[s] IN
    IF r.state # SVC_STATE_DOWN /\ r.state # SVC_STATE_START
    THEN [m EXCEPT !.ret = FALSE]
    ELSE
        LET w == IF when - m.wake.now > 0 THEN when ELSE m.wake.now
            m1 == [m EXCEPT !.svc[s].state = SVC_STATE_START,
                            !.svc[s].start_time = IF w = 0 THEN 1 ELSE w]
            m2 == svc_change_pid(m1, s, 0)
            m3 == [m2 EXCEPT !.svc[s].reap_time = 0,
                             !.svc[s].wait_status = -1]
            m4 == svc_set_active(m3, s, TRUE)
            m5 == svc_notify_state(m4, s)
        IN [m5 EXCEPT !.wake.next = m5.wake.now, !.ret = TRUE]

\* Variant of svc_cancel_start that leaves the record on the active list.
svc_cancel_start_keepactive(m, s) ==
    IF m.svc[s].state # SVC_STATE_START
    THEN [m EXCEPT !.ret = FALSE]
    ELSE [m EXCEPT !.svc[s].state = SVC_STATE_DOWN,
                   !.svc[s].start_time = 0,
                   !.ret = TRUE]

svc_cancel_start(m, s) ==
    IF m.svc[s].state # SVC_STATE_START
    THEN [m EXCEPT !.ret = FALSE]
    ELSE
        LET m1 == [m EXCEPT !.svc[s].state = SVC_STATE_DOWN,
                            !.svc[s].start_time = 0]
            m2 == svc_set_active(m1, s, FALSE)
            m3 == svc_notify_state(m2, s)
        IN [m3 EXCEPT !.ret = TRUE]

\* Variant of svc_handle_reaped that leaves the active list alone.
svc_handle_reaped_noactive(m, s, wstat) ==
    IF m.svc[s].state = SVC_STATE_UP THEN
        LET m1 == [m EXCEPT !.svc[s].wait_status = wstat,
                            !.svc[s].state = SVC_STATE_REAPED,
                            !.svc[s].reap_time = m.wake.now]
        IN [m1 EXCEPT !.wake.next = m1.wake.now]
    ELSE m

svc_handle_reaped(m, s, wstat) ==
    IF m.svc[s].state = SVC_STATE_UP THEN
        LET m1 == [m EXCEPT !.svc[s].wait_status = wstat,
                            !.svc[s].state = SVC_STATE_REAPED,
                            !.svc[s].reap_time = m.wake.now]
            m2 == svc_set_active(m1, s, TRUE)
        IN [m2 EXCEPT !.wake.next = m2.wake.now]
    ELSE m

\* svc_send_signal: m.killed is the pid (or process group) that kill or
\* killpg is called on, 0 when neither is called; kill_ok is whether that
\* call succeeds.  The call changes nothing in the service core.
svc_send_signal(m, s, signum, group, kill_ok) ==
    IF s = NULL \/ m.svc[s].pid <= 0
    THEN [m EXCEPT !.ret = FALSE, !.killed = 0]
    ELSE [m EXCEPT !.ret = kill_ok, !.killed = m.svc[s].pid]


(***************************************************************************)
(* The variable store: a packed buffer of name=value NUL entries           *)
(***************************************************************************)

\* Bytes of a symbol, and of a string.
SymLen(c) ==
    CASE c \in {"always", "SIGHUP", "SIGINT"} -> 6
      [] c = "triggers" -> 8
      [] c = "bogus" -> 5
      [] c \in {"tags", "args", "null"} -> 4
      [] c = "fds" -> 3
      [] c = "control.event" -> 13
      [] c = "control.cmd" -> 11
      [] c = "control.socket" -> 14
      [] OTHER -> 1

RECURSIVE ByteLen(_)
ByteLen(str) == IF str = <<>> THEN 0 ELSE SymLen(Head(str)) + ByteLen(Tail(str))

\* svc_pool != NULL
PoolOn(m) == m.pool_size_each # 0

\* Offset of name_buf in struct service_s (after `int state`).
OffsetofNameBuf == 4

\* config.h (scaled): names have at most NAME_BUF_SIZE-1 bytes.
NAME_BUF_SIZE == 28

\* sizeof(strseg_t): a pointer and an int, padded.
StrsegSize == 16

\* Offsets of the descriptors `name` and `vars`, which follow name_buf in
\* struct service_s.
OffsetofName == OffsetofNameBuf + NAME_BUF_SIZE
OffsetofVars == OffsetofName + StrsegSize

\* buf - (char*)svc, for a record of the pool: vars.data was set by svc_ctor
\* to name.data + name.len + 1.
VarsOffset(r) == OffsetofNameBuf + ByteLen(r.name) + 1

\* A descriptor whose bytes were overwritten with text: what it designates
\* is not defined, and is shown as one byte of junk.
Wild == <<JUNK>>

\* The buffer of a record of the pool lies in the record itself, from
\* VarsOffset on: what svc_set_var writes past the end of name_buf falls on
\* the descriptors `name` and `vars` of the same record.
PoolOverrun(m, s) ==
    IF ~PoolOn(m) THEN m
    ELSE [m EXCEPT
            !.svc[s].name =
                IF VarsOffset(m.svc[s]) + ByteLen(m.svc[s].vars) > OffsetofName
                THEN Wild ELSE @,
            !.svc[s].vars =
                IF VarsOffset(m.svc[s]) + ByteLen(m.svc[s].vars) > OffsetofVars
                THEN Wild ELSE @]

\* The search loop of svc_get_var and svc_set_var over the buffer, from
\* index off on.  val_pos, val_len: the value of the entry found (oldval);
\* tail_pos, tail_len: what follows the last entry scanned (tail).
RECURSIVE FindVar(_, _, _)
FindVar(buf, name, off) ==
    LET tailstr == SubSeq(buf, off, Len(buf)) IN
    IF Len(tailstr) <= 0
    THEN [found |-> FALSE, val_pos |-> 0, val_len |-> 0,
          tail_pos |-> off, tail_len |-> 0]
    ELSE
        LET e == TokNext(tailstr, NUL)
            kv == TokNext(e.tok, EQ)
            next_off == off + Len(e.tok) + 1
            tail_len == IF e.more THEN Len(buf) - next_off + 1 ELSE -1
        IN  IF kv.tok = name
            THEN [found |-> TRUE,
                  val_pos |-> off + Len(kv.tok) + 1,
                  val_len |-> IF kv.more THEN Len(kv.rest) ELSE -1,
                  tail_pos |-> next_off, tail_len |-> tail_len]
            ELSE IF tail_len > 0 THEN FindVar(buf, name, next_off)
            ELSE [found |-> FALSE, val_pos |-> 0, val_len |-> 0,
                  tail_pos |-> next_off, tail_len |-> tail_len]

svc_get_var(m, s, name) ==
    LET buf == m.svc[s].vars
        f == FindVar(buf, name, 1)
    IN  IF f.found
        THEN [found |-> TRUE,
              val |-> SubSeq(buf, f.val_pos, f.val_pos + f.val_len - 1)]
        ELSE [found |-> FALSE, val |-> <<>>]

\* sizediff of svc_set_var, from the lengths involved.
SizeDiff(found, has_value, value_len, oldval_len, name_len) ==
    IF found
    THEN (IF has_value THEN value_len - oldval_len
          ELSE 0 - (oldval_len + 1 + name_len + 1))
    ELSE (IF has_value THEN name_len + 1 + value_len + 1 ELSE 0)

\* memcpy(dst, src, Len(src)) into buffer b at index pos.
MemCpy(b, pos, src) ==
    [i \in DOMAIN b |->
        IF i >= pos /\ i < pos + Len(src) THEN src[i - pos + 1] ELSE b[i]]

\* memmove(b + from + diff, b + from, len)
MemMove(b, from, diff, len) ==
    [i \in DOMAIN b |->
        IF i >= from + diff /\ i < from + diff + len THEN b[i - diff] ELSE b[i]]

\* buf_size of svc_set_var for a record of the pool: the bytes from
\* vars.data on that the room check lets the buffer take.
SetVarBufSize(m, s) == m.pool_size_each - VarsOffset(m.svc[s])

\* svc_set_var, once the search loop has ended with f: the room check.
SetVarFits(m, s, bytediff, alloc_ok) ==
    IF PoolOn(m)
    THEN ~(ByteLen(m.svc[s].vars) + bytediff
               > m.pool_size_each - VarsOffset(m.svc[s]))
    ELSE alloc_ok

\* The buffer after realloc: what was added is not yet written.
SetVarGrow(buf, sizediff) ==
    [i \in 1..(IF sizediff > 0 THEN Len(buf) + sizediff ELSE Len(buf)) |->
        IF i <= Len(buf) THEN buf[i] ELSE JUNK]

\* "if tail of buffer needs to move, move it"
SetVarMoveTail(b, f, sizediff) ==
    IF sizediff # 0 /\ f.tail_len > 0
    THEN MemMove(b, f.tail_pos, sizediff, f.tail_len)
    ELSE b

\* "if we're adding a new var, set up the name= portion"
SetVarWriteName(b, f, name, has_value) ==
    IF ~f.found /\ has_value
    THEN [MemCpy(b, f.tail_pos, name) EXCEPT ![f.tail_pos + Len(name)] = EQ]
    ELSE b

\* "If we have a value, overwrite the old one"; val_pos is oldval.data.
SetVarWriteValue(b, val_pos, has_value, value) ==
    IF has_value
    THEN [MemCpy(b, val_pos, value) EXCEPT ![val_pos + Len(value)] = NUL]
    ELSE b

\* svc_set_var from the end of its search loop on; sizediff counts symbols
\* and bytediff bytes.
SetVarStore(m, s, name, has_value, value, alloc_ok, f, sizediff, bytediff) ==
    IF sizediff > 0 /\ ~SetVarFits(m, s, bytediff, alloc_ok)
    THEN [m EXCEPT !.ret = FALSE]
    ELSE PoolOverrun([m EXCEPT
            !.svc[s].vars =
                SubSeq(SetVarWriteValue(
                           SetVarWriteName(
                               SetVarMoveTail(SetVarGrow(m.svc[s].vars, sizediff),
                                              f, sizediff),
                               f, name, has_value),
                           IF ~f.found /\ has_value
                           THEN f.tail_pos + Len(name) + 1
                           ELSE f.val_pos,
                           has_value, value),
                       1, Len(m.svc[s].vars) + sizediff),
            !.ret = TRUE], s)

SetVarFound(m, s, name, has_value, value, alloc_ok, f) ==
    SetVarStore(m, s, name, has_value, value, alloc_ok, f,
                SizeDiff(f.found, has_value, Len(value), f.val_len, Len(name)),
                SizeDiff(f.found, has_value, ByteLen(value),
                         ByteLen(SubSeq(m.svc[s].vars, f.val_pos,
                                        f.val_pos + f.val_len - 1)),
                         ByteLen(name)))

\* svc_set_var(svc, name, value): has_value is false for a NULL value;
\* alloc_ok is whether realloc succeeds.
svc_set_var(m, s, name, has_value, value, alloc_ok) ==
    IF PoolOn(m) /\ m.svc[s].vars = Wild
    THEN \* the writes go through a descriptor that designates nothing
         \* known, and the descriptor remains what it is
         [m EXCEPT !.ret = TRUE]
    ELSE SetVarFound(m, s, name, has_value, value, alloc_ok,
                     FindVar(m.svc[s].vars, name, 1))

svc_get_tags(m, s) ==
    LET v == svc_get_var(m, s, <<"tags">>) IN
    IF v.found THEN v.val ELSE <<>>

svc_set_tags(m, s, new_tags, alloc_ok) ==
    svc_set_var(m, s, <<"tags">>, ~(Len(new_tags) <= 0), new_tags, alloc_ok)

svc_get_argv(m, s) ==
    LET v == svc_get_var(m, s, <<"args">>) IN
    IF v.found THEN v.val ELSE <<>>

svc_set_argv(m, s, new_argv, alloc_ok) ==
    svc_set_var(m, s, <<"args">>, ~(Len(new_argv) <= 0), new_argv, alloc_ok)

\* "null\tnull\tnull"
FdsDefault == <<"null", TAB, "null", TAB, "null">>

svc_get_fds(m, s) ==
    LET v == svc_get_var(m, s, <<"fds">>) IN
    IF v.found THEN v.val ELSE FdsDefault

\* svc_set_fds once the variable is stored: "re-evaluate whether they are
\* using the special control handles".
SetFdsFlags(m, s, names) ==
    [m EXCEPT !.svc[s].uses_control_event = <<"control.event">> \in names,
              !.svc[s].uses_control_cmd = <<"control.cmd">> \in names,
              !.svc[s].uses_control_socket = <<"control.socket">> \in names,
              !.ret = TRUE]

SetFdsStored(m, s, new_fds) ==
    IF new_fds # FdsDefault /\ ~m.ret THEN m
    ELSE SetFdsFlags(m, s, Range(Tokens(new_fds, TAB)))

\* svc_set_fds: the default is stored as no variable at all (a call that
\* cannot fail, and whose result is not looked at); any other value, the
\* empty one included, is stored as it is.
svc_set_fds(m, s, new_fds, alloc_ok) ==
    SetFdsStored(
        IF new_fds = FdsDefault
        THEN svc_set_var(m, s, <<"fds">>, FALSE, <<>>, alloc_ok)
        ELSE svc_set_var(m, s, <<"fds">>, TRUE, new_fds, alloc_ok),
        s, new_fds)

svc_get_triggers(m, s) ==
    LET v == svc_get_var(m, s, <<"triggers">>) IN
    IF v.found THEN v.val ELSE <<>>

\* The parsing loop of svc_set_triggers over what is left of the list.
RECURSIVE ParseTriggers(_, _)
ParseTriggers(list, acc) ==
    LET t == TokNext(list, TAB) IN
    IF ~(Len(t.tok) > 0) THEN acc
    ELSE
        LET acc1 ==
                IF t.tok = <<"always">> THEN [acc EXCEPT !.autostart = TRUE]
                ELSE IF sig_num_by_name(t.tok) > 0
                THEN [acc EXCEPT !.sigs = @ \cup {sig_num_by_name(t.tok)},
                                 !.enable_sigs = TRUE]
                ELSE [acc EXCEPT !.ok = FALSE]
        IN  IF ~acc1.ok THEN acc1
            ELSE IF t.more THEN ParseTriggers(t.rest, acc1)
            ELSE acc1

\* svc_set_triggers once the list is stored: the flags, the sigwake list
\* and the start a trigger that already holds asks for.
SetTriggersStart(m, s) ==
    IF m.svc[s].auto_restart \/ svc_check_sigwake(m, s)
    THEN svc_handle_start(m, s, m.wake.now)
    ELSE m

\* Variant of SetTriggersApply that sets the flags whether or not the list
\* was stored.
SetTriggersApply_early(m, s, p) ==
    [m EXCEPT !.svc[s].auto_restart = p.autostart,
              !.svc[s].autostart_signals = p.sigs]

SetTriggersApply(m, s, p) ==
    IF ~m.ret THEN m
    ELSE [SetTriggersStart(
              svc_set_sigwake([m EXCEPT !.svc[s].auto_restart = p.autostart,
                                        !.svc[s].autostart_signals = p.sigs],
                              s, p.enable_sigs),
              s)
            EXCEPT !.ret = TRUE]

SetTriggersParsed(m, s, triggers_tsv, alloc_ok, p) ==
    IF ~p.ok THEN [m EXCEPT !.ret = FALSE]
    ELSE SetTriggersApply(
             svc_set_var(m, s, <<"triggers">>, ~(Len(triggers_tsv) <= 0),
                         triggers_tsv, alloc_ok),
             s, p)

svc_set_triggers(m, s, triggers_tsv, alloc_ok) ==
    SetTriggersParsed(m, s, triggers_tsv, alloc_ok,
        ParseTriggers(triggers_tsv,
            [ok |-> TRUE, autostart |-> FALSE, sigs |-> {},
             enable_sigs |-> FALSE]))

svc_get_wstat(m, s) == m.svc[s].wait_status

svc_get_restart_interval(m, s) == m.svc[s].restart_interval

svc_set_restart_interval(m, s, interval) ==
    IF (interval \div Sec) < 1 THEN [m EXCEPT !.ret = FALSE]
    ELSE [m EXCEPT !.svc[s].restart_interval = interval, !.ret = TRUE]


(***************************************************************************)
(* Creation and destruction                                                *)
(***************************************************************************)

\* The bytes svc_check_name lets through, among the bytes of the model.
NameChar(c) == c \in {"a", "b", "c", "Z", "0", ".", "_", "-"}

svc_check_name(name) ==
    IF Len(name) >= NAME_BUF_SIZE THEN FALSE
    ELSE \A i \in 1..Len(name) : NameChar(name[i])

svc_ctor(m, s, name) ==
    LET r == [NoSvc EXCEPT !.state = SVC_STATE_DOWN, !.name = name]
    IN [m EXCEPT !.svc[s] = r, !.name_index = @ \cup {s}]

\* svc_new: the record is placed in the lowest free slot; alloc_ok is
\* whether malloc and realloc succeed.
svc_new(m, name, alloc_ok) ==
    LET free == Slots \ m.svc_list IN
    IF free = {} \/ (~PoolOn(m) /\ ~alloc_ok)
    THEN [m EXCEPT !.ret = NULL]
    ELSE
        LET s == CHOOSE x \in free : \A y \in free : x <= y
            m1 == [m EXCEPT !.svc_list = @ \cup {s}]
        IN [svc_ctor(m1, s, name) EXCEPT !.ret = s]

\* RBTree_Find on the name index, for an exact match.
NameFind(m, name) == {s \in m.name_index : m.svc[s].name = name}

svc_by_name(m, name, create, alloc_ok) ==
    IF NameFind(m, name) # {}
    THEN [m EXCEPT !.ret = CHOOSE s \in NameFind(m, name) : TRUE]
    ELSE IF create /\ svc_check_name(name) THEN svc_new(m, name, alloc_ok)
    ELSE [m EXCEPT !.ret = NULL]

\* The byte behind a symbol of a name.
CharCode(c) ==
    CASE c = "-" -> 45 [] c = "." -> 46 [] c = "/" -> 47 [] c = "0" -> 48
      [] c = "Z" -> 90 [] c = "_" -> 95 [] c = "a" -> 97 [] c = "b" -> 98
      [] c = "c" -> 99 [] OTHER -> 63

\* strseg_cmp: bytes compared in order, a proper prefix being the lesser.
RECURSIVE strseg_cmp(_, _)
strseg_cmp(a, b) ==
    IF a = <<>> THEN (IF b = <<>> THEN 0 ELSE -1)
    ELSE IF b = <<>> THEN 1
    ELSE IF CharCode(Head(a)) < CharCode(Head(b)) THEN -1
    ELSE IF CharCode(Head(a)) > CharCode(Head(b)) THEN 1
    ELSE strseg_cmp(Tail(a), Tail(b))

svc_by_name_compare(m, name, s) == strseg_cmp(name, m.svc[s].name)

\* The nodes of the name index on either side of a key.
NameBelow(m, name) ==
    {x \in m.name_index : svc_by_name_compare(m, name, x) > 0}
NameAbove(m, name) ==
    {x \in m.name_index : svc_by_name_compare(m, name, x) < 0}

\* RBTreeNode_GetNext on the name index: the node after s in key order.
RBTreeNode_GetNext(m, s) ==
    IF NameAbove(m, m.svc[s].name) = {} THEN NULL
    ELSE CHOOSE x \in NameAbove(m, m.svc[s].name) :
             \A y \in NameAbove(m, m.svc[s].name) :
                 svc_by_name_compare(m, m.svc[x].name, y) <= 0

\* RBTree_Find on the name index: the node with the key, or else the node
\* the descent ends on, which is the last node below the key or the first
\* above it as the shape of the tree has it; Relation is how the key
\* compares with Nearest.  The set of the results the tree may give.
RBTree_Find(m, name) ==
    IF m.name_index = {} THEN {[Nearest |-> NULL, Relation |-> -1]}
    ELSE IF NameFind(m, name) # {}
    THEN {[Nearest |-> x, Relation |-> 0] : x \in NameFind(m, name)}
    ELSE {[Nearest |-> x, Relation |-> 1] :
              x \in {b \in NameBelow(m, name) :
                        \A y \in NameBelow(m, name) :
                            svc_by_name_compare(m, m.svc[b].name, y) >= 0}}
         \cup
         {[Nearest |-> x, Relation |-> -1] :
              x \in {a \in NameAbove(m, name) :
                        \A y \in NameAbove(m, name) :
                            svc_by_name_compare(m, m.svc[a].name, y) <= 0}}

\* Variant of IterFromFind that takes the node found for the next one.
IterFromFind_inclusive(m, f) ==
    IF f.Nearest = NULL THEN NULL
    ELSE IF f.Relation <= 0 THEN f.Nearest
    ELSE RBTreeNode_GetNext(m, f.Nearest)

\* svc_iter_next without a record, once RBTree_Find has returned f.
IterFromFind(m, f) ==
    IF f.Nearest = NULL THEN NULL
    ELSE IF f.Relation < 0 THEN f.Nearest
    ELSE RBTreeNode_GetNext(m, f.Nearest)

\* svc_iter_next(svc, from_name): the set of the records it may return.
svc_iter_next(m, s, from_name) ==
    IF s # NULL THEN {RBTreeNode_GetNext(m, s)}
    ELSE {IterFromFind(m, f) : f \in RBTree_Find(m, from_name)}

\* Variant of svc_dtor that leaves the PID node in its index.
svc_dtor_keeppid(m, s) ==
    LET m1 == svc_set_active(m, s, FALSE)
        m2 == svc_set_sigwake(m1, s, FALSE)
    IN [m2 EXCEPT !.name_index = @ \ {s}]

svc_dtor(m, s) ==
    LET m1 == svc_set_active(m, s, FALSE)
        m2 == svc_set_sigwake(m1, s, FALSE)
        m3 == IF m2.svc[s].pid # 0
              THEN [m2 EXCEPT !.pid_index = @ \ {s}]
              ELSE m2
    IN [m3 EXCEPT !.name_index = @ \ {s}]

\* svc_delete: after svc_dtor the memory is freed (or, in a pool, is the
\* next slot svc_new hands out, which svc_ctor clears).
svc_delete(m, s) ==
    LET m1 == svc_dtor(m, s) IN
    [m1 EXCEPT !.svc_list = @ \ {s}, !.svc[s] = NoSvc, !.hist[s] = NoHist]

(***************************************************************************)
(* The state machine                                                       *)
(***************************************************************************)

\* What a launch comes to: the pid of the child when fork succeeds, and
\* otherwise the step that fails.
FORK_FAILS == 0
CTL_ALLOC_FAILS == -1
SOCKETPAIR_FAILS == -2
CTL_CTOR_FAILS == -3

\* The pool of controllers and the descriptors of the process, as far as
\* one svc_do_fork call goes: m.ctl counts the controllers the call holds,
\* m.ctl_fds is what the controller was given, m.open_fds the members of
\* sockets[] that are open.
ctl_alloc(m) == [m EXCEPT !.ctl = @ + 1]
socketpair(m) == [m EXCEPT !.open_fds = {0, 1}]
\* The controller has the descriptors it was given from ctl_ctor on,
\* whether or not ctl_ctor succeeds, and ctl_dtor closes them.
ctl_ctor(m, write_fd, read_fd) ==
    [m EXCEPT !.ctl_fds = {write_fd, read_fd} \ {-1}]
ctl_dtor(m) == [m EXCEPT !.open_fds = @ \ m.ctl_fds, !.ctl_fds = {}]
ctl_free(m) == [m EXCEPT !.ctl = @ - 1]

\* Variant of DoForkFail that cleans nothing up.
DoForkFail_noclean(m, has_ctl) == [m EXCEPT !.ret = FALSE]

\* svc_do_fork from its label fail on: "cleanup based on what was
\* initialized"; has_ctl is ctl != NULL.
DoForkFail(m, has_ctl) ==
    [(IF has_ctl THEN ctl_free(ctl_dtor(m))
      ELSE [m EXCEPT !.open_fds = @ \ {0}])
        EXCEPT !.open_fds = @ \ {1}, !.ret = FALSE]

\* svc_do_fork from fork() on: the parent closes sockets[1].
DoForkFork(m, s, out, has_ctl) ==
    IF out <= 0 THEN DoForkFail(m, has_ctl)
    ELSE [svc_change_pid(m, s, out) EXCEPT !.children = @ \cup {out},
                                           !.open_fds = @ \ {1},
                                           !.ret = TRUE]

\* svc_do_fork for a record that uses one of the control handles: the
\* controller and the socket pair.
DoForkControl(m, s, out) ==
    IF out = CTL_ALLOC_FAILS THEN DoForkFail(m, FALSE)
    ELSE IF out = SOCKETPAIR_FAILS THEN DoForkFail(ctl_alloc(m), TRUE)
    ELSE IF out = CTL_CTOR_FAILS
    THEN DoForkFail(
             ctl_ctor(socketpair(ctl_alloc(m)),
                 IF m.svc[s].uses_control_socket \/ m.svc[s].uses_control_cmd
                 THEN 0 ELSE -1,
                 IF m.svc[s].uses_control_socket \/ m.svc[s].uses_control_event
                 THEN 0 ELSE -1),
             TRUE)
    ELSE DoForkFork(
             ctl_ctor(socketpair(ctl_alloc(m)),
                 IF m.svc[s].uses_control_socket \/ m.svc[s].uses_control_cmd
                 THEN 0 ELSE -1,
                 IF m.svc[s].uses_control_socket \/ m.svc[s].uses_control_event
                 THEN 0 ELSE -1),
             s, out, TRUE)

\* svc_do_fork: out is what the launch comes to; m.forks counts the calls.
svc_do_fork(m, s, out) ==
    IF m.svc[s].uses_control_socket \/ m.svc[s].uses_control_event
           \/ m.svc[s].uses_control_cmd
    THEN DoForkControl([m EXCEPT !.forks = @ + 1], s, out)
    ELSE DoForkFork([m EXCEPT !.forks = @ + 1], s, out, FALSE)

\* History: a launch of s succeeded at wake.now.
NoteLaunch(m, s) ==
    LET h == m.hist[s] IN
    [m EXCEPT !.hist[s] =
        [launched |-> m.wake.now, trig_only |-> TRUE,
         short_gap |-> h.trig_only /\ h.launched >= 0
                       /\ m.wake.now - h.launched < m.svc[s].restart_interval]]

\* History: an event made svc_run restart s.
NoteCause(m, e, by) ==
    [m EXCEPT !.cause = @ \cup {[signum |-> e.signum, ts |-> e.ts, by |-> by]}]

\* Variant of RestartWhen without the back-off.
RestartWhen_now(r, now) == now

\* The start time svc_run asks for when it restarts a reaped record.
RestartWhen(r, now) ==
    IF r.reap_time - r.start_time < r.restart_interval
    THEN now + r.restart_interval
    ELSE now

\* Variant of svc_run_wait that leaves the wake deadline alone.
svc_run_wait_keepwake(m, s) == svc_set_active(m, s, TRUE)

\* Variant of svc_run_wait that takes the waiting record off the active list.
svc_run_wait_unlisted(m, s) ==
    svc_set_active(
        IF m.svc[s].start_time - m.wake.next < 0
        THEN [m EXCEPT !.wake.next = m.svc[s].start_time]
        ELSE m,
        s, FALSE)

\* svc_run on a record in START whose start_time is yet to come: "set
\* main-loop wake time if we're next", "ensure listed as active".
svc_run_wait(m, s) ==
    svc_set_active(
        IF m.svc[s].start_time - m.wake.next < 0
        THEN [m EXCEPT !.wake.next = m.svc[s].start_time]
        ELSE m,
        s, TRUE)

RECURSIVE svc_run(_, _, _)
svc_run(m, s, out) ==
    LET r == m.svc[s]
        now == m.wake.now
    IN
    CASE r.state = SVC_STATE_START ->
            IF r.start_time - now > 0 THEN svc_run_wait(m, s)
            ELSE
                LET f == svc_do_fork(m, s, out) IN
                IF ~f.ret
                THEN svc_run(svc_handle_start(f, s, now + FORK_RETRY_DELAY),
                             s, out)
                ELSE
                    LET m1 == [f EXCEPT
                                 !.svc[s].start_time = IF now # 0 THEN now ELSE 1,
                                 !.svc[s].state = SVC_STATE_UP]
                        m2 == svc_notify_state(NoteLaunch(m1, s), s)
                    IN svc_set_active(m2, s, FALSE)
      [] r.state = SVC_STATE_UP -> svc_set_active(m, s, FALSE)
      [] r.state = SVC_STATE_REAPED ->
            LET m1 == svc_notify_state(m, s)
                m2 == [m1 EXCEPT !.svc[s].state = SVC_STATE_DOWN]
                c == CheckSigwake(m2, s)
                m3 == IF r.auto_restart \/ c.hit
                      THEN svc_notify_state(
                             svc_handle_start(
                               IF r.auto_restart THEN m2
                               ELSE NoteCause(m2, c, "reaped"),
                               s, RestartWhen(r, now)),
                             s)
                      ELSE m2
            IN svc_run(m3, s, out)
      [] r.state = SVC_STATE_DOWN -> svc_set_active(m, s, FALSE)

\* The walk of the sigwake list for one event of the signal sweep.
RECURSIVE SigwakeWalk(_, _, _)
SigwakeWalk(m, s, e) ==
    IF s = NULL THEN m
    ELSE
        LET next == m.svc[s].sigwake_next
            m1 == IF e.signum \in m.svc[s].autostart_signals
                  THEN LET h == svc_handle_start(m, s, m.wake.now) IN
                       IF h.ret THEN NoteCause(h, e, "sweep") ELSE h
                  ELSE m
        IN SigwakeWalk(m1, next, e)

\* The signal sweep of svc_run_active: its while loop.
RECURSIVE SignalSweep(_)
SignalSweep(m) ==
    LET e == sig_get_new_events(m, m.last_signal_ts) IN
    IF ~e.ok THEN m
    ELSE SignalSweep([SigwakeWalk(m, m.sigwake_list, e)
                         EXCEPT !.last_signal_ts = e.ts])

\* Variant of ActiveWalk that runs the head of the list only.
ActiveWalk_headonly(m, s, outs) ==
    IF s = NULL THEN m
    ELSE svc_run([m EXCEPT !.visited = Append(@, s)], s, outs[s])

\* The active sweep of svc_run_active; outs[s] is what a launch of s comes
\* to, should svc_run attempt one.
RECURSIVE ActiveWalk(_, _, _)
ActiveWalk(m, s, outs) ==
    IF s = NULL THEN m
    ELSE
        LET next == m.svc[s].active_next IN
        ActiveWalk(svc_run([m EXCEPT !.visited = Append(@, s)], s, outs[s]),
                   next, outs)

\* Variant of svc_run_active without the active sweep.
svc_run_active_sweeponly(m, outs) ==
    IF m.sigwake_list # NULL THEN SignalSweep(m) ELSE m

\* Variant of svc_run_active whose signal sweep forgets how far the
\* previous one came.
svc_run_active_resweep(m, outs) ==
    LET m0 == [m EXCEPT !.last_signal_ts = 0]
        m1 == IF m.sigwake_list # NULL THEN SignalSweep(m0) ELSE m
    IN ActiveWalk(m1, m1.active_list, outs)

\* Variant of svc_run_active that runs the active sweep first.
svc_run_active_activefirst(m, outs) ==
    LET m1 == ActiveWalk(m, m.active_list, outs)
    IN IF m1.sigwake_list # NULL THEN SignalSweep(m1) ELSE m1

svc_run_active(m, outs) ==
    LET m1 == IF m.sigwake_list # NULL THEN SignalSweep(m) ELSE m
    IN ActiveWalk(m1, m1.active_list, outs)


(***************************************************************************)
(* svc_do_exec: the file descriptors of the forked child                   *)
(***************************************************************************)

\* The child's descriptors are 0..FdLimit-1; files[d] is the open file that
\* descriptor d refers to, NoFile when d is closed.
FdLimit == 7
Fds == 0..(FdLimit - 1)
NoFile == 0
\* sizeof(int)
IntSize == 4
DASH == "-"
\* An entry of fd_list left by a name that fd_by_name does not know.
FD_UNKNOWN == -2

\* The fd registry: fd_by_name yields the object of a name (here the name,
\* wrapped) or no object, fd_get_fdnum the descriptor recorded for it.
NoFd == <<>>
fd_by_name(c, name) == IF name \in DOMAIN c.fdnum THEN <<name>> ELSE NoFd
fd_get_fdnum(c, fd) == c.fdnum[fd[1]]

FreeFds(c) == {d \in Fds : c.files[d] = NoFile}

\* dup(fd): the lowest free descriptor, made to refer to fd's open file;
\* -1 when fd is not open or no descriptor is free.
dup(c, fd) ==
    IF fd \notin Fds \/ c.files[fd] = NoFile \/ FreeFds(c) = {}
    THEN [c |-> c, ret |-> -1]
    ELSE LET n == CHOOSE d \in FreeFds(c) : \A e \in FreeFds(c) : d <= e
         IN [c |-> [c EXCEPT !.files[n] = c.files[fd]], ret |-> n]

\* dup2(fd, to): descriptor `to` refers to fd's open file; -1 when fd is
\* not open.
dup2(c, fd, to) ==
    IF fd \notin Fds \/ c.files[fd] = NoFile
    THEN [c |-> c, ret |-> -1]
    ELSE [c |-> [c EXCEPT !.files[to] = c.files[fd]], ret |-> to]

close(c, fd) == [c EXCEPT !.files[fd] = NoFile]

\* The second tokenising loop of svc_do_exec: the descriptor of each name,
\* -1 for a dash, nothing for an empty name.
RECURSIVE ExecResolve(_, _)
ExecResolve(c, toks) ==
    IF toks = <<>> THEN <<>>
    ELSE
        LET fd_name == Head(toks)
            rest == ExecResolve(c, Tail(toks))
        IN
        IF Len(fd_name) <= 0 THEN rest
        ELSE IF fd_name = <<DASH>> THEN <<-1>> \o rest
        ELSE IF fd_by_name(c, fd_name) # NoFd
             THEN <<fd_get_fdnum(c, fd_by_name(c, fd_name))>> \o rest
        ELSE <<FD_UNKNOWN>> \o rest

\* What svc_do_exec stores in fd_list for the specification fd_spec.
ExecStored(c, fd_spec) ==
    IF Len(fd_spec) = 0 THEN <<>>
    ELSE ExecResolve(c, Tokens(fd_spec, TAB))

\* The first tokenising loop: fd_count as alloca finds it, the number of
\* tokens, the empty ones included.
ExecAllocaSize(fd_spec) ==
    IF Len(fd_spec) = 0 THEN 0 ELSE Len(Tokens(fd_spec, TAB))

\* fd_list = alloca(fd_count) is an object of fd_count bytes: entry k
\* (from 0) lies inside it when its IntSize bytes end within them.
InAlloca(size, k) == IntSize * (k + 1) <= size

\* What the remap loops may find in fd_list after the stores: an entry
\* stored inside the object holds its value; a store outside the object is
\* undefined, the entry holds its value or (for one entry) any other.
FdListOutcomes(stored, size) ==
    {stored} \cup
    {[stored EXCEPT ![k] = v] :
        k \in {j \in 1..Len(stored) : ~InAlloca(size, j - 1)},
        v \in -1..(FdLimit - 1)}

\* svc_do_exec from its entry to the start of the remap, the loops finding
\* `list` in fd_list.
svc_do_exec_resolve(c, list) ==
    LET stored == ExecStored(c, c.fd_spec) IN
    IF \E k \in 1..Len(stored) : stored[k] = FD_UNKNOWN
    THEN [c EXCEPT !.pc = "abort"]
    ELSE [c EXCEPT
            !.fd_count = Len(stored),
            !.fd_list = list,
            !.i = 0,
            !.want = [k \in 1..Len(stored) |->
                        IF stored[k] < 0 THEN NoFile ELSE c.files[stored[k]]],
            !.kept = (list = stored),
            !.pc = IF Len(stored) = 0 THEN "closerest" ELSE "phaseA"]

\* The while loop of phase A for entry k (from 0).
RECURSIVE ExecDupUp(_, _)
ExecDupUp(c, k) ==
    IF c.fd_list[k + 1] >= 0 /\ c.fd_list[k + 1] < c.fd_count THEN
        LET d == dup(c, c.fd_list[k + 1]) IN
        IF d.ret < 0 THEN [d.c EXCEPT !.pc = "abort"]
        ELSE ExecDupUp([d.c EXCEPT !.fd_list[k + 1] = d.ret], k)
    ELSE c

\* One pass of the first for loop: "make sure all the file descriptors
\* we're about to copy are out of the way".
svc_do_exec_phaseA(c) ==
    LET c1 == ExecDupUp(c, c.i) IN
    IF c1.pc = "abort" THEN c1
    ELSE IF c.i + 1 < c.fd_count THEN [c1 EXCEPT !.i = c.i + 1]
    ELSE [c1 EXCEPT !.i = 0, !.pc = "phaseB"]

\* One pass of the second for loop: "dup2 each into its correct slot".
svc_do_exec_phaseB(c) ==
    LET fd == c.fd_list[c.i + 1]
        c1 == IF fd >= 0
              THEN IF dup2(c, fd, c.i).ret < 0
                   THEN [c EXCEPT !.pc = "abort"]
                   ELSE dup2(c, fd, c.i).c
              ELSE close(c, c.i)
    IN
    IF c1.pc = "abort" THEN c1
    ELSE IF c.i + 1 < c.fd_count THEN [c1 EXCEPT !.i = c.i + 1]
    ELSE [c1 EXCEPT !.i = c.i + 1, !.pc = "closerest"]

\* "close all fd we aren't keeping", then on to exec.
svc_do_exec_closerest(c) ==
    [c EXCEPT !.files = [d \in Fds |-> IF d >= c.i THEN NoFile ELSE @[d]],
              !.pc = "exec"]


(***************************************************************************)
(* The entry points, called from the main loop in any order                *)
(***************************************************************************)

\* The machine state m becomes the next state.
Commit(m) ==
    /\ svc' = m.svc
    /\ svc_list' = m.svc_list
    /\ svc_pool_size_each' = m.pool_size_each
    /\ svc_by_name_index' = m.name_index
    /\ svc_by_pid_index' = m.pid_index
    /\ svc_active_list' = m.active_list
    /\ svc_sigwake_list' = m.sigwake_list
    /\ svc_last_signal_ts' = m.last_signal_ts
    /\ wake' = m.wake
    /\ sig_events' = m.sig_events
    /\ children' = m.children
    /\ hist' = m.hist
    /\ UNCHANGED child

\* Commit(m) would change a variable.
Changes(m) ==
    <<m.svc, m.svc_list, m.pool_size_each, m.name_index, m.pid_index,
      m.active_list, m.sigwake_list, m.last_signal_ts, m.wake, m.sig_events,
      m.children, m.hist>>
    # <<svc, svc_list, svc_pool_size_each, svc_by_name_index,
        svc_by_pid_index, svc_active_list, svc_sigwake_list,
        svc_last_signal_ts, wake, sig_events, children, hist>>

\* History: an administrative call touched s since its last launch.
Admin(m, s) == [m EXCEPT !.hist[s].trig_only = FALSE]

ByName(name, create, alloc_ok) ==
    /\ Commit(svc_by_name(St, name, create, alloc_ok))

Delete(s) ==
    /\ s \in svc_list
    /\ Commit(svc_delete(St, s))

HandleStart(s, when) ==
    /\ s \in svc_list
    /\ Commit(Admin(svc_handle_start(St, s, when), s))

CancelStart(s) ==
    /\ s \in svc_list
    /\ Commit(Admin(svc_cancel_start(St, s), s))

SendSignal(s, signum, group, kill_ok) ==
    /\ s \in svc_list
    /\ Commit(svc_send_signal(St, s, signum, group, kill_ok))

SetTriggers(s, tsv, alloc_ok) ==
    /\ s \in svc_list
    /\ Commit(Admin(svc_set_triggers(St, s, tsv, alloc_ok), s))

SetTags(s, new_tags, alloc_ok) ==
    /\ s \in svc_list
    /\ Commit(Admin(svc_set_tags(St, s, new_tags, alloc_ok), s))

SetFds(s, new_fds, alloc_ok) ==
    /\ s \in svc_list
    /\ Commit(Admin(svc_set_fds(St, s, new_fds, alloc_ok), s))

SetArgv(s, new_argv, alloc_ok) ==
    /\ s \in svc_list
    /\ Commit(Admin(svc_set_argv(St, s, new_argv, alloc_ok), s))

SetRestartInterval(s, interval) ==
    /\ s \in svc_list
    /\ Commit(Admin(svc_set_restart_interval(St, s, interval), s))

\* What fork may return in one svc_run_active call, the OS handing out the
\* pids of `pids`: a pid no unreaped child has, and not the same pid twice.
ForkOutcomes(m, pids) ==
    {outs \in [Slots -> {0} \cup pids] :
        \A s \in Slots :
            /\ s \notin m.svc_list => outs[s] = 0
            /\ outs[s] # 0 =>
                  /\ outs[s] \notin m.children
                  /\ \A x \in Slots \ {s} : outs[x] # outs[s]}

\* As ForkOutcomes, with the steps of a launch that can fail before fork
\* for the records that use a control handle.
LaunchOutcomes(m, pids) ==
    {outs \in [Slots -> {CTL_CTOR_FAILS, SOCKETPAIR_FAILS, CTL_ALLOC_FAILS,
                         FORK_FAILS} \cup pids] :
        \A s \in Slots :
            /\ s \notin m.svc_list => outs[s] = FORK_FAILS
            /\ outs[s] < 0 =>
                  (m.svc[s].uses_control_socket \/ m.svc[s].uses_control_event
                       \/ m.svc[s].uses_control_cmd)
            /\ outs[s] > 0 =>
                  /\ outs[s] \notin m.children
                  /\ \A x \in Slots \ {s} : outs[x] # outs[s]}

RunActive(outs) ==
    Commit(svc_run_active(St, outs))

\* The main loop reaps child p with status wstat: it looks the pid up and
\* tells the record found.
ReapChild(p, wstat) ==
    /\ p \in children
    /\ \/ /\ svc_by_pid(St, p) = {}
          /\ Commit([St EXCEPT !.children = @ \ {p}])
       \/ \E s \in svc_by_pid(St, p) :
              Commit([svc_handle_reaped(St, s, wstat)
                         EXCEPT !.children = @ \ {p}])

\* The steps of the child in svc_do_exec.  The daemon's state is another
\* process's memory.
ChildStep(c) ==
    /\ child' = c
    /\ UNCHANGED <<svc, svc_list, svc_pool_size_each, svc_by_name_index,
                   svc_by_pid_index, svc_active_list, svc_sigwake_list,
                   svc_last_signal_ts, wake, sig_events, children, hist>>

ExecResolveStep ==
    /\ child.pc = "entry"
    /\ \E list \in FdListOutcomes(ExecStored(child, child.fd_spec),
                                   ExecAllocaSize(child.fd_spec)) :
           ChildStep(svc_do_exec_resolve(child, list))

ExecPhaseA ==
    /\ child.pc = "phaseA"
    /\ ChildStep(svc_do_exec_phaseA(child))

ExecPhaseB ==
    /\ child.pc = "phaseB"
    /\ ChildStep(svc_do_exec_phaseB(child))

ExecCloseRest ==
    /\ child.pc = "closerest"
    /\ ChildStep(svc_do_exec_closerest(child))

\* The main loop wakes at a later time and resets its wake deadline.
Tick(t) ==
    /\ t > wake.now
    /\ wake' = [now |-> t, next |-> t + MaxSleep]
    /\ UNCHANGED <<svc, svc_list, svc_pool_size_each, svc_by_name_index,
                   svc_by_pid_index, svc_active_list, svc_sigwake_list,
                   svc_last_signal_ts, sig_events, children, hist, child>>

\* The signal-event source records the receipt of signal g: a new event,
\* later than every event it holds.
SigArrive(g) ==
    /\ \A h \in Signals : sig_events[h] < wake.now
    /\ sig_events' = [sig_events EXCEPT ![g] = wake.now]
    /\ UNCHANGED <<svc, svc_list, svc_pool_size_each, svc_by_name_index,
                   svc_by_pid_index, svc_active_list, svc_sigwake_list,
                   svc_last_signal_ts, wake, children, hist, child>>

(***************************************************************************)
(* Spec: one service record at a time, with the clock, both signals and    *)
(* all setters.                                                            *)
(***************************************************************************)

WhenInputs == 0..MaxTime
WstatInputs == {0, 1}
IntervalInputs == {1, Sec}
TriggerInputs ==
    {<<>>, <<"always">>, <<"SIGHUP">>, <<"SIGHUP", TAB, "SIGINT">>}

InitGlobals(now, size_each) ==
    /\ svc = [s \in Slots |-> NoSvc]
    /\ svc_list = {}
    /\ svc_pool_size_each = size_each
    /\ svc_by_name_index = {}
    /\ svc_by_pid_index = {}
    /\ svc_active_list = NULL
    /\ svc_sigwake_list = NULL
    /\ svc_last_signal_ts = 0
    /\ wake = [now |-> now, next |-> now + MaxSleep]
    /\ sig_events = [g \in Signals |-> 0]
    /\ children = {}
    /\ hist = [s \in Slots |-> NoHist]

InitWith(now, size_each) ==
    /\ InitGlobals(now, size_each)
    /\ child = NoChild

InitAt(now) == InitWith(now, 0)

Init == InitAt(0)

Next ==
    \/ \E name \in {<<"a">>, <<"/">>}, create \in BOOLEAN,
          ok \in (IF svc_list = {} THEN BOOLEAN ELSE {FALSE}) :
           ByName(name, create, ok)
    \/ \E s \in Slots : Delete(s)
    \/ \E s \in Slots, when \in WhenInputs : HandleStart(s, when)
    \/ \E s \in Slots : CancelStart(s)
    \/ \E s \in Slots, g \in Signals, grp \in BOOLEAN, ok \in BOOLEAN :
           SendSignal(s, g, grp, ok)
    \/ \E s \in Slots, tsv \in TriggerInputs, ok \in BOOLEAN :
           SetTriggers(s, tsv, ok)
    \/ \E s \in Slots, i \in IntervalInputs : SetRestartInterval(s, i)
    \/ \E outs \in ForkOutcomes(St, 1..MaxPid) : RunActive(outs)
    \/ \E p \in 1..MaxPid, w \in WstatInputs : ReapChild(p, w)
    \/ \E t \in 1..MaxTime : Tick(t)
    \/ \E g \in Signals : SigArrive(g)

Spec == Init /\ [][Next]_vars

(***************************************************************************)
(* SpecTwo: two service records, at one instant of the clock, without      *)
(* signal events.                                                          *)
(***************************************************************************)

InitTwo == InitAt(1)

NextTwo ==
    \/ \E name \in {<<"a">>, <<"b">>}, create \in BOOLEAN, ok \in BOOLEAN :
           ByName(name, create, ok)
    \/ \E s \in Slots : Delete(s)
    \/ \E s \in Slots : HandleStart(s, 0)
    \/ \E s \in Slots : CancelStart(s)
    \/ \E s \in Slots, tsv \in {<<>>, <<"always">>, <<"SIGHUP">>} :
           SetTriggers(s, tsv, TRUE)
    \/ \E outs \in ForkOutcomes(St, 1..(MaxPid + 1)) : RunActive(outs)
    \/ \E p \in 1..(MaxPid + 1) : ReapChild(p, 1)

SpecTwo == InitTwo /\ [][NextTwo]_vars

(***************************************************************************)
(* SpecVars: one record, on the heap or in a pool, and the setters of the   *)
(* variable store.                                                         *)
(***************************************************************************)

\* svc_pool_size_each of a pool (scaled): sizeof(service_t) and the
\* data_size_each asked for, rounded up to a multiple of 16.
PoolSizeEach == 80

TagsInputs == {<<>>, <<"x">>, <<"x", "y">>}
ArgvInputs == {<<>>, <<"x">>}
FdsInputs ==
    {<<>>, FdsDefault, <<"control.socket">>, <<"control.event", TAB, "null">>}

InitVars ==
    \E size_each \in {0, PoolSizeEach} : InitWith(1, size_each)

NextVars ==
    \/ \E create \in (IF svc_list = {} THEN BOOLEAN ELSE {FALSE}),
          ok \in BOOLEAN :
           ByName(<<"a">>, create, ok)
    \/ \E s \in Slots : Delete(s)
    \/ \E s \in Slots, v \in TagsInputs, ok \in BOOLEAN : SetTags(s, v, ok)
    \/ \E s \in Slots, v \in ArgvInputs : SetArgv(s, v, TRUE)
    \/ \E s \in Slots, v \in FdsInputs : SetFds(s, v, TRUE)
    \/ \E s \in Slots, tsv \in {<<>>, <<"always">>, <<"SIGHUP">>} :
           SetTriggers(s, tsv, TRUE)

SpecVars == InitVars /\ [][NextVars]_vars

(***************************************************************************)
(* SpecLaunch: one record on the heap, at one instant of the clock, its    *)
(* fds, and launches that can fail at each step.                           *)
(***************************************************************************)

NextLaunch ==
    \/ \E create \in (IF svc_list = {} THEN BOOLEAN ELSE {FALSE}) :
           ByName(<<"a">>, create, TRUE)
    \/ \E s \in Slots : Delete(s)
    \/ \E s \in Slots, v \in FdsInputs \cup {<<"control.cmd">>} :
           SetFds(s, v, TRUE)
    \/ \E s \in Slots, when \in WhenInputs : HandleStart(s, when)
    \/ \E s \in Slots : CancelStart(s)
    \/ \E outs \in LaunchOutcomes(St, 1..MaxPid) : RunActive(outs)
    \/ \E p \in 1..MaxPid, w \in WstatInputs : ReapChild(p, w)

InitLaunch == InitAt(1)

SpecLaunch == InitLaunch /\ [][NextLaunch]_vars

(***************************************************************************)
(* SpecNames: two records under any two of four names, created, started,   *)
(* cancelled and deleted in any order.                                     *)
(***************************************************************************)

InitNames == InitAt(1)

NextNames ==
    \/ \E name \in {<<"a">>, <<"a", "b">>, <<"b">>, <<"Z">>},
          create \in BOOLEAN :
           ByName(name, create, TRUE)
    \/ \E s \in Slots : Delete(s)
    \/ \E s \in Slots : HandleStart(s, 0)
    \/ \E s \in Slots : CancelStart(s)

SpecNames == InitNames /\ [][NextNames]_vars

(***************************************************************************)
(* SpecSweep: as SpecTwo, the OS handing out as many pids as there are     *)
(* records; the specification of the claims about one svc_run_active call  *)
(* over several records.                                                   *)
(***************************************************************************)

SweepPids == 1..Cardinality(Slots)

NextSweep ==
    \/ \E name \in {<<"a">>, <<"b">>}, create \in BOOLEAN, ok \in BOOLEAN :
           ByName(name, create, ok)
    \/ \E s \in Slots : Delete(s)
    \/ \E s \in Slots : HandleStart(s, 0)
    \/ \E s \in Slots : CancelStart(s)
    \/ \E s \in Slots, tsv \in {<<>>, <<"always">>, <<"SIGHUP">>} :
           SetTriggers(s, tsv, TRUE)
    \/ \E outs \in ForkOutcomes(St, SweepPids) : RunActive(outs)
    \/ \E p \in SweepPids : ReapChild(p, 1)

SpecSweep == InitTwo /\ [][NextSweep]_vars


(***************************************************************************)
(* SpecLive: a record that is started, launched, reaped and restarted       *)
(* while the main loop keeps running: no cancel, no delete, no change of    *)
(* the triggers once set.  The main loop calls svc_run_active on every      *)
(* pass, its clock advances, and fork succeeds in the end.                  *)
(***************************************************************************)

\* One record has one child at a time: one pid, handed out again and again.
LivePids == {1}

\* Record s is in START and its start_time is not before t.
Waiting(s, t) ==
    /\ s \in svc_list
    /\ svc[s].state = SVC_STATE_START
    /\ svc[s].start_time - t >= 0

\* The clock runs to MaxTime, and beyond it as far as a record waits.
TickLive(t) ==
    /\ t <= MaxTime \/ \E s \in Slots : Waiting(s, t)
    /\ Tick(t)

\* A pass of the main loop in which every fork succeeds (a record that is
\* UP is not launched; a pass with no record on either list changes
\* nothing).
RunActiveOk ==
    /\ svc_active_list # NULL \/ svc_sigwake_list # NULL
    /\ \E outs \in ForkOutcomes(St, LivePids) :
           /\ \A s \in svc_list : outs[s] = 0 <=> svc[s].state = SVC_STATE_UP
           /\ \E m \in {svc_run_active(St, outs)} : Commit(m)

\* ENABLED <<RunActiveOk>>_vars as a function of the state: a pass in which
\* every fork succeeds would change a global.
RunActiveOkEnabled ==
    /\ svc_active_list # NULL \/ svc_sigwake_list # NULL
    /\ \E outs \in ForkOutcomes(St, LivePids) :
           /\ \A s \in svc_list : outs[s] = 0 <=> svc[s].state = SVC_STATE_UP
           /\ Changes(svc_run_active(St, outs))

\* svc_run on record s would process a reaped child or attempt a launch.
Pending(s) ==
    /\ s \in svc_list
    /\ \/ svc[s].state = SVC_STATE_REAPED
       \/ svc[s].state = SVC_STATE_START /\ svc[s].start_time - wake.now <= 0

\* A pass in which every fork succeeds, made while record s is pending.
LaunchOk(s) == Pending(s) /\ RunActiveOk

\* SF_vars(LaunchOk(s)), its enabling condition written out: the main loop
\* keeps calling svc_run_active, and the launch attempts for s, made again
\* and again, succeed in the end.
LaunchesSucceed(s) ==
    <>[](~(Pending(s) /\ RunActiveOkEnabled)) \/ []<><<LaunchOk(s)>>_vars

\* A pass in which some fork fails; there are no failures after MaxTime.
RunActiveFail ==
    /\ wake.now <= MaxTime
    /\ \E outs \in ForkOutcomes(St, LivePids) :
           /\ \E s \in svc_list : outs[s] = 0
           /\ RunActive(outs)

\* Children exit up to MaxTime.
ReapLive(p, wstat) ==
    /\ wake.now <= MaxTime
    /\ ReapChild(p, wstat)

TickAny == \E t \in 1..(MaxTime + 2 * Sec) : TickLive(t)

\* The record is given the trigger "always" (auto_restart).
SetAlways(s) == SetTriggers(s, <<"always">>, TRUE)

NextLive ==
    \/ ByName(<<"a">>, TRUE, TRUE)
    \/ \E s \in Slots : SetAlways(s)
    \/ \E s \in Slots, i \in IntervalInputs : SetRestartInterval(s, i)
    \/ \E s \in Slots : HandleStart(s, 0)
    \/ RunActiveOk
    \/ RunActiveFail
    \/ \E p \in LivePids : ReapLive(p, 1)
    \/ TickAny

SpecLive ==
    /\ InitTwo
    /\ [][NextLive]_vars
    /\ \A s \in Slots : LaunchesSucceed(s)
    /\ SF_vars(TickAny)


(***************************************************************************)
(* SpecExec: a forked child in svc_do_exec, for every fds specification of *)
(* up to MaxFdNames names and every placing of the registry's descriptors. *)
(***************************************************************************)

MaxFdNames == 3
MaxRegFd == 3
RegNames == {<<"x">>, <<"y">>, <<"null">>}
FdNameInputs == {<<DASH>>} \cup RegNames

\* The names joined by tabs.
RECURSIVE JoinTab(_)
JoinTab(names) ==
    IF Len(names) = 0 THEN <<>>
    ELSE IF Len(names) = 1 THEN names[1]
    ELSE names[1] \o <<TAB>> \o JoinTab(Tail(names))

ExecFdsInputs ==
    {JoinTab(names) :
        names \in UNION {[1..n -> FdNameInputs] : n \in 0..MaxFdNames}}
    \cup {<<"x", TAB, TAB, "y">>, <<"x", TAB, "bogus">>}

\* The registry gives each of its names a descriptor of its own.
RegistryInputs ==
    {f \in [RegNames -> 0..MaxRegFd] :
        \A a, b \in RegNames : a # b => f[a] # f[b]}

\* The child at the entry of svc_do_exec: svc_get_fds returned fd_spec, and
\* the descriptors of the registry are open, each on its own file.
ChildAtEntry(fd_spec, fdnum) ==
    [NoChild EXCEPT
        !.pc = "entry",
        !.fd_spec = fd_spec,
        !.fdnum = fdnum,
        !.files = [d \in Fds |->
                     IF \E a \in RegNames : fdnum[a] = d THEN d + 1
                     ELSE NoFile]]

InitExec ==
    /\ InitGlobals(1, 0)
    /\ \E fd_spec \in ExecFdsInputs, fdnum \in RegistryInputs :
           child = ChildAtEntry(fd_spec, fdnum)

NextExec ==
    \/ ExecResolveStep
    \/ ExecPhaseA
    \/ ExecPhaseB
    \/ ExecCloseRest

SpecExec == InitExec /\ [][NextExec]_vars


(***************************************************************************)
(* Properties                                                              *)
(***************************************************************************)

Max(a, b) == IF a > b THEN a ELSE b

\* What a call leaves alone besides the records: lists, PID index, clock.
SameGlobals(m) ==
    /\ m.active_list = svc_active_list
    /\ m.sigwake_list = svc_sigwake_list
    /\ m.pid_index = svc_by_pid_index
    /\ m.name_index = svc_by_name_index
    /\ m.wake = wake

\* C1: svc_handle_start(when) on a record in DOWN or START returns true and
\* leaves it in START with start_time = max(when, now) (1 if that is 0),
\* pid 0, reap_time 0, wait_status -1, on the active list, and wake.next =
\* now; on a record in UP or REAPED it returns false and changes nothing.
C1_HandleStart ==
    \A s \in svc_list, when \in 0..(MaxTime + 1) :
        LET m == svc_handle_start(St, s, when)
            q == m.svc[s]
            t == Max(when, wake.now)
        IN  IF svc[s].state \in {SVC_STATE_DOWN, SVC_STATE_START}
            THEN /\ m.ret = TRUE
                 /\ q.state = SVC_STATE_START
                 /\ q.start_time = (IF t = 0 THEN 1 ELSE t)
                 /\ q.pid = 0
                 /\ s \notin m.pid_index
                 /\ q.reap_time = 0
                 /\ q.wait_status = -1
                 /\ OnActive(m, s)
                 /\ m.wake.next = wake.now
            ELSE /\ m.ret = FALSE
                 /\ m.svc = svc
                 /\ SameGlobals(m)

\* A start asked for at time 0 has been stored as start_time 1.
C1_Witness ==
    \E s \in svc_list :
        /\ wake.now = 0 /\ wake.next = 0
        /\ svc[s].state = SVC_STATE_START
        /\ svc[s].start_time = 1
        /\ svc[s].wait_status = -1
        /\ svc_active_list = s

\* C2: svc_handle_reaped(wstat) on a record in UP sets wait_status, sets
\* reap_time = now and state = REAPED, puts the record on the active list
\* and sets wake.next = now; in any other state it changes nothing.
C2_HandleReaped ==
    \A s \in svc_list, wstat \in WstatInputs :
        LET m == svc_handle_reaped(St, s, wstat)
            q == m.svc[s]
        IN  IF svc[s].state = SVC_STATE_UP
            THEN /\ q = [svc[s] EXCEPT !.wait_status = wstat,
                                       !.reap_time = wake.now,
                                       !.state = SVC_STATE_REAPED,
                                       !.active_prev_ptr = q.active_prev_ptr,
                                       !.active_next = q.active_next]
                 /\ OnActive(m, s)
                 /\ m.wake.next = wake.now
            ELSE /\ m.svc = svc
                 /\ SameGlobals(m)

\* A reaped record: status 1 recorded at the present time, and active.
C2_Witness ==
    \E s \in svc_list :
        /\ svc[s].state = SVC_STATE_REAPED
        /\ svc[s].wait_status = 1
        /\ svc[s].reap_time = wake.now
        /\ wake.next = wake.now
        /\ OnActive(St, s)

\* The signal source holds an event for one of the record's trigger signals.
PendingTrigger(s) ==
    \E g \in svc[s].autostart_signals : sig_events[g] # 0

\* C3: back-off.  Ticking a REAPED record that has auto_restart or a pending
\* trigger signal: if reap_time - start_time < restart_interval the record
\* ends in START with start_time = now + restart_interval, pid 0, active;
\* otherwise the start is scheduled at now (it is due at once: the launch is
\* attempted in the same call, and the record ends UP with start_time = now,
\* or, the launch failing, in START at now + FORK_RETRY_DELAY).  With
\* neither, the record ends in DOWN and off the active list.
C3_Backoff ==
    \A s \in svc_list, out \in {0} \cup ((1..(MaxPid + 1)) \ children) :
        svc[s].state = SVC_STATE_REAPED =>
            LET r == svc[s]
                m == svc_run(St, s, out)
                q == m.svc[s]
            IN  IF r.auto_restart \/ PendingTrigger(s)
                THEN IF r.reap_time - r.start_time < r.restart_interval
                     THEN /\ q.state = SVC_STATE_START
                          /\ q.start_time = wake.now + r.restart_interval
                          /\ q.pid = 0
                          /\ OnActive(m, s)
                     ELSE IF out # 0
                     THEN /\ q.state = SVC_STATE_UP
                          /\ q.start_time = wake.now
                          /\ q.pid = out
                     ELSE /\ q.state = SVC_STATE_START
                          /\ q.start_time = wake.now + FORK_RETRY_DELAY
                          /\ q.pid = 0
                          /\ OnActive(m, s)
                ELSE /\ q.state = SVC_STATE_DOWN
                     /\ ~OnActive(m, s)

\* A record restarted by its tick after a short run: launched, not touched
\* by an administrative call since, and waiting out the restart interval.
C3_Witness ==
    \E s \in svc_list :
        /\ svc[s].state = SVC_STATE_START
        /\ svc[s].restart_interval = Sec
        /\ svc[s].start_time = wake.now + Sec
        /\ svc[s].pid = 0
        /\ hist[s].launched >= 0 /\ hist[s].trig_only
        /\ OnActive(St, s)

\* C4: a record in DOWN or START has pid 0 and no node in the PID index.
C4_PidOnlyWhileChild ==
    \A s \in svc_list :
        svc[s].state \in {SVC_STATE_DOWN, SVC_STATE_START} =>
            svc[s].pid = 0 /\ s \notin svc_by_pid_index

\* C5: svc_send_signal signals a pid if and only if the record is UP; in
\* DOWN, START and REAPED nothing is signalled and the call returns false.
C5_SignalIffRunning ==
    \A s \in svc_list, g \in Signals, grp \in BOOLEAN :
        LET m == svc_send_signal(St, s, g, grp, TRUE) IN
        /\ (m.killed # 0) <=> (svc[s].state = SVC_STATE_UP)
        /\ svc[s].state # SVC_STATE_UP => m.ret = FALSE

\* C6: after any sequence of operations every live record has its node in
\* the name index, no two live records share a name, a deleted record is in
\* no index and on no list, and a record has a node in the PID index
\* exactly when its pid is non-zero.
C6_IndexIntegrity ==
    /\ svc_by_name_index = svc_list
    /\ \A s, x \in svc_list : svc[s].name = svc[x].name => s = x
    /\ \A s \in Slots \ svc_list :
          /\ s \notin svc_by_name_index
          /\ s \notin svc_by_pid_index
          /\ ~OnActive(St, s)
          /\ ~OnSigwake(St, s)
    /\ \A s \in svc_list : s \in svc_by_pid_index <=> svc[s].pid # 0

\* The first record was deleted while its child ran; the second is up.
C6_Witness ==
    /\ svc_list = {2}
    /\ svc[2].state = SVC_STATE_UP
    /\ svc_by_pid_index = {2}
    /\ Cardinality(children) = 2

\* C7: with restart_interval set, a record started only by its triggers
\* (always, or trigger signals), with no administrative call in between,
\* is never launched twice less than restart_interval apart.
C7_MinSpacing ==
    \A s \in svc_list : ~hist[s].short_gap

\* The record is DOWN, its triggers value is the name of signal g, and the
\* signal source has exactly one new event, one for g.
SignalScenario(s, g) ==
    /\ svc[s].state = SVC_STATE_DOWN
    /\ sig_num_by_name(svc_get_triggers(St, s)) = g
    /\ {h \in Signals : sig_events[h] > svc_last_signal_ts} = {g}

\* C8 as stated: in the signal scenario the record is in START with
\* start_time = now when the next svc_run_active call returns.
C8_StartAfterSweep ==
    \A s \in svc_list, g \in Signals :
        SignalScenario(s, g) =>
            \A outs \in ForkOutcomes(St, 1..(MaxPid + 1)) :
                LET q == svc_run_active(St, outs).svc[s] IN
                q.state = SVC_STATE_START /\ q.start_time = wake.now

\* C8: in the signal scenario the next svc_run_active call starts the
\* record at now and ticks it before it returns: the record is UP with
\* start_time = now when the launch succeeds, and in START with start_time
\* = now + FORK_RETRY_DELAY when it fails; the sweep has consumed the event.
C8_LaunchAfterSweep ==
    \A s \in svc_list, g \in Signals :
        SignalScenario(s, g) =>
            \A outs \in ForkOutcomes(St, 1..(MaxPid + 1)) :
                LET m == svc_run_active(St, outs)
                    q == m.svc[s]
                IN  /\ m.last_signal_ts = sig_events[g]
                    /\ IF outs[s] # 0
                       THEN /\ q.state = SVC_STATE_UP
                            /\ q.start_time = wake.now
                            /\ q.pid = outs[s]
                       ELSE /\ q.state = SVC_STATE_START
                            /\ q.start_time = wake.now + FORK_RETRY_DELAY
                            /\ q.pid = 0

\* A record with one signal trigger, launched at the present time by the
\* sweep that consumed the signal's event.
C8_Witness ==
    \E s \in svc_list, g \in Signals :
        /\ sig_num_by_name(svc_get_triggers(St, s)) = g
        /\ svc[s].state = SVC_STATE_UP
        /\ svc[s].start_time = wake.now
        /\ hist[s].launched = wake.now
        /\ svc_last_signal_ts = sig_events[g]
        /\ sig_events[g] = wake.now

\* svc_last_signal_ts is no smaller after a svc_run_active call.
LastSignalTsMonotone ==
    \A outs \in ForkOutcomes(St, 1..(MaxPid + 1)) :
        svc_run_active(St, outs).last_signal_ts >= svc_last_signal_ts

\* The events a svc_run_active call is yielded are the source's events later
\* than svc_last_signal_ts; the events of earlier calls are at or before it.
\* C9 as stated: svc_last_signal_ts never decreases, and no record is
\* started in a svc_run_active call because of an event that an earlier
\* call was yielded.
C9_OneRound ==
    /\ LastSignalTsMonotone
    /\ \A outs \in ForkOutcomes(St, 1..(MaxPid + 1)) :
           \A c \in svc_run_active(St, outs).cause :
               c.ts > svc_last_signal_ts

\* C9: svc_last_signal_ts never decreases; the signal sweep of a
\* svc_run_active call starts records only for events later than the
\* svc_last_signal_ts it began with and leaves svc_last_signal_ts at or
\* after every event it was yielded, so that no later sweep handles them
\* again.  (A later call may still restart a reaped record for an event the
\* source holds.)
C9_SweepOnce ==
    /\ LastSignalTsMonotone
    /\ \A outs \in ForkOutcomes(St, 1..(MaxPid + 1)) :
           LET m == svc_run_active(St, outs) IN
           /\ \A c \in m.cause :
                  c.by = "sweep" =>
                      c.ts > svc_last_signal_ts /\ c.ts <= m.last_signal_ts
           /\ svc_sigwake_list # NULL =>
                  \A g \in Signals : sig_events[g] <= m.last_signal_ts

\* A reaped record whose trigger signal's event has been swept and is still
\* held by the source: the next svc_run_active call restarts it.
C9_Witness ==
    \E s \in svc_list, g \in Signals :
        /\ g \in svc[s].autostart_signals
        /\ svc[s].state = SVC_STATE_REAPED
        /\ svc_last_signal_ts > 0
        /\ sig_events[g] = svc_last_signal_ts

\* The trigger lists svc_set_triggers is tried on.
MaxTrigLen == 3
TrigSyms == {"always", "SIGHUP", "bogus", TAB}
TrigStrings ==
    UNION {[1..n -> TrigSyms] : n \in 0..MaxTrigLen}

\* C10: svc_set_triggers agrees with a parse of the whole list: it fails
\* when some non-empty token is neither always nor a signal name, and when
\* it succeeds auto_restart says whether the stored list has the token
\* always, autostart_signals is the set of the signals the list names, and
\* the record is on the sigwake list exactly when that set is not empty.
C10_WholeListParse ==
    \A s \in svc_list, tsv \in TrigStrings :
        LET m == svc_set_triggers(St, s, tsv, TRUE)
            toks == Range(Tokens(tsv, TAB))
            stored == Range(Tokens(svc_get_triggers(m, s), TAB))
            sigs == {sig_num_by_name(k) : k \in stored} \ {0}
            Known(k) == k = <<"always">> \/ sig_num_by_name(k) > 0
        IN  /\ (\E k \in toks : Len(k) > 0 /\ ~Known(k)) => ~m.ret
            /\ m.ret =>
                  /\ m.svc[s].auto_restart <=> <<"always">> \in stored
                  /\ m.svc[s].autostart_signals = sigs
                  /\ OnSigwake(m, s) <=> sigs # {}

\* The names svc_check_name and svc_by_name are tried on: short names over
\* three bytes, and the names of NAME_BUF_SIZE-1 and NAME_BUF_SIZE bytes.
NameInputs ==
    UNION {[1..n -> {"a", "Z", "/"}] : n \in 0..2}
        \cup {[i \in 1..(NAME_BUF_SIZE - 1) |-> "a"],
              [i \in 1..NAME_BUF_SIZE |-> "a"]}

\* A name of 1 to NAME_BUF_SIZE-1 bytes, each a letter, a digit, `.`, `_`
\* or `-`.
ValidName(name) ==
    /\ Len(name) >= 1
    /\ Len(name) <= NAME_BUF_SIZE - 1
    /\ \A i \in 1..Len(name) : name[i] \in {"a", "Z"}

\* C13: svc_check_name accepts exactly the names of 1 to NAME_BUF_SIZE-1
\* bytes over letters, digits, `.`, `_` and `-`, and svc_by_name with
\* create makes a record only for such a name: for any other name that no
\* record has, it returns none and creates nothing.
C13_NameSyntax ==
    \A name \in NameInputs :
        LET m == svc_by_name(St, name, TRUE, TRUE) IN
        /\ svc_check_name(name) <=> ValidName(name)
        /\ (~ValidName(name) /\ NameFind(St, name) = {}) =>
              /\ m.ret = NULL
              /\ m.svc_list = svc_list

\* C14: svc_get_wstat returns -1 for a record that has never been reaped,
\* from its creation on; a record that has never been launched has never
\* been reaped.
C14_WstatUnreaped ==
    \A s \in svc_list :
        hist[s].launched = -1 => svc_get_wstat(St, s) = -1

\* C15: the whole-seconds part of every record's restart_interval is at
\* least 1 from its creation on, and svc_set_restart_interval with an
\* interval whose whole-seconds part is below 1 returns false and leaves the
\* interval as it was.
C15_IntervalAtLeastOneSecond ==
    /\ \A s \in svc_list : svc_get_restart_interval(St, s) \div Sec >= 1
    /\ \A s \in svc_list, i \in (0 - Sec)..(2 * Sec) :
           LET m == svc_set_restart_interval(St, s, i) IN
           i \div Sec < 1 =>
              /\ ~m.ret
              /\ svc_get_restart_interval(m, s) = svc_get_restart_interval(St, s)

\* C18: svc_run on a record in START whose start_time is later than now
\* forks nothing and leaves the record as it is (START, pid 0, the same
\* start_time, on the active list); all it changes is wake.next, which
\* becomes the earlier of wake.next and start_time.
C18_WaitInStart ==
    \A s \in svc_list, out \in 0..MaxPid :
        (svc[s].state = SVC_STATE_START /\ svc[s].start_time > wake.now) =>
            LET m == svc_run(St, s, out) IN
            /\ m.children = children
            /\ m.svc[s].state = SVC_STATE_START
            /\ m.svc[s].pid = 0
            /\ m.svc[s].start_time = svc[s].start_time
            /\ OnActive(m, s)
            /\ m.wake.next = (IF svc[s].start_time < wake.next
                              THEN svc[s].start_time ELSE wake.next)
            /\ m = [St EXCEPT !.wake.next = m.wake.next]

\* svc_run_active has met a record waiting in START and has brought the
\* wake deadline forward to its start_time.
C18_Witness ==
    \E s \in svc_list :
        /\ svc[s].state = SVC_STATE_START
        /\ svc[s].start_time > wake.now
        /\ OnActive(St, s)
        /\ wake.next = svc[s].start_time

\* The wake deadlines svc_run_active is entered with.
WakeNextInputs == 0..(MaxTime + MaxSleep)

\* C12: whatever wake.next is when svc_run_active is called and whatever
\* records exist, when the call returns wake.next is no later than the
\* start_time of any record still in START.
C12_WakeCoversStarts ==
    \A wn \in WakeNextInputs, outs \in ForkOutcomes(St, SweepPids) :
        LET m == svc_run_active([St EXCEPT !.wake.next = wn], outs) IN
        \A s \in m.svc_list :
            m.svc[s].state = SVC_STATE_START =>
                m.wake.next <= m.svc[s].start_time

\* svc_run_active has returned with a record waiting in START, another
\* record being up.
C12_Witness ==
    \E s \in svc_list, x \in svc_list :
        /\ svc[s].state = SVC_STATE_START
        /\ svc[s].start_time = wake.now + FORK_RETRY_DELAY
        /\ wake.next <= svc[s].start_time
        /\ svc[x].state = SVC_STATE_UP

\* C20: in one svc_run_active call the signal sweep comes first, and the
\* active sweep then runs svc_run exactly once, in list order, on every
\* record that is on the active list when the signal sweep has ended, the
\* records that sweep moved to START included, whatever svc_run does to the
\* list meanwhile.  m.visited is the sequence of records the active sweep
\* ran svc_run on; ev is whether a SIGHUP event awaits the call.
C20_SweepVisitsAll ==
    \A ev \in BOOLEAN, outs \in ForkOutcomes(St, SweepPids) :
        LET m0 == IF ev
                  THEN [St EXCEPT !.sig_events[SIGHUP] = svc_last_signal_ts + 1]
                  ELSE St
            ms == IF m0.sigwake_list # NULL THEN SignalSweep(m0) ELSE m0
            m == svc_run_active(m0, outs)
        IN  /\ m.visited = ActiveSeq(ms)
            /\ Cardinality(Range(m.visited)) = Len(m.visited)
            /\ \A s \in svc_list :
                   (svc[s].state = SVC_STATE_DOWN
                        /\ ms.svc[s].state = SVC_STATE_START) =>
                       s \in Range(m.visited)

\* A reaped record is on the active list while another record, down, waits
\* for SIGHUP on the sigwake list: with the event, the call moves the second
\* to START and the active sweep has both to run, the first of which leaves
\* the list or restarts under the sweep's feet.
C20_Witness ==
    \E s \in svc_list, x \in svc_list :
        /\ s # x
        /\ svc[s].state = SVC_STATE_DOWN
        /\ OnSigwake(St, s)
        /\ SIGHUP \in svc[s].autostart_signals
        /\ svc[x].state = SVC_STATE_REAPED
        /\ OnActive(St, x)

\* A value no slot of the pool has room for.
BigValue == [i \in 1..6 |-> "control.socket"]

\* The values the setters are tried on: those of the actions, values too
\* large for a slot, and trigger lists with a token that names nothing.
BigFds == <<"control.cmd", TAB>> \o BigValue
BigTriggers ==
    [i \in 1..23 |-> IF i % 2 = 0 THEN TAB
                     ELSE IF i % 4 = 1 THEN "always" ELSE "SIGHUP"]
TriggerTries ==
    {<<>>, <<"always">>, <<"SIGHUP">>, <<"bogus">>,
     <<"always", TAB, "bogus">>, <<"SIGHUP", TAB, "bogus">>, BigTriggers}

\* C11: a setter that returns false leaves the record, and the rest of the
\* service core, exactly as it was: svc_set_triggers on a list with a bad
\* token or a list there is no room for (triggers variable, auto_restart,
\* autostart_signals, sigwake list, state), svc_set_tags, svc_set_argv and
\* svc_set_fds on a value there is no room for (packed variables,
\* uses_control_* flags), svc_set_restart_interval (interval).
C11_FailedSetterNoChange ==
    \A s \in svc_list, ok \in BOOLEAN :
        /\ \A tsv \in TriggerTries :
               LET m == svc_set_triggers(St, s, tsv, ok) IN ~m.ret => m = St
        /\ \A v \in TagsInputs \cup {BigValue} :
               LET m == svc_set_tags(St, s, v, ok) IN ~m.ret => m = St
        /\ \A v \in ArgvInputs \cup {BigValue} :
               LET m == svc_set_argv(St, s, v, ok) IN ~m.ret => m = St
        /\ \A v \in FdsInputs \cup {BigFds} :
               LET m == svc_set_fds(St, s, v, ok) IN ~m.ret => m = St
        /\ \A i \in 0..(2 * Sec) :
               LET m == svc_set_restart_interval(St, s, i) IN
               ~m.ret => m = St

\* A record of the pool that uses the control socket and has tags: the pool has no room for BigValue, BigFds or BigTriggers, and
\* the setters refuse them.
C11_Witness ==
    \E s \in svc_list :
        /\ PoolOn(St)
        /\ svc[s].name = <<"a">>
        /\ svc[s].uses_control_socket
        /\ svc_get_tags(St, s) = <<"x">>
        /\ ~svc_set_tags(St, s, BigValue, TRUE).ret
        /\ ~svc_set_fds(St, s, BigFds, TRUE).ret
        /\ ~svc_set_triggers(St, s, BigTriggers, TRUE).ret

VarKeys == {<<"tags">>, <<"args">>, <<"fds">>}
VarValues == {<<"x">>, <<"x", "y">>, <<"y", EQ, "x">>, <<"control.socket">>}

\* set_var(k, v) as the callers of the core have it: the setter of k.
SetVarOf(m, s, k, v) ==
    IF k = <<"tags">> THEN svc_set_tags(m, s, v, TRUE)
    ELSE IF k = <<"args">> THEN svc_set_argv(m, s, v, TRUE)
    ELSE svc_set_fds(m, s, v, TRUE)

\* The entries of a packed buffer, and the buffer parsing as name=value NUL
\* entries with no key twice.
VarEntries(buf) == Tokens(SubSeq(buf, 1, Len(buf) - 1), NUL)
VarsWellFormed(buf) ==
    buf # <<>> =>
        /\ buf[Len(buf)] = NUL
        /\ \A i \in 1..Len(VarEntries(buf)) :
               /\ TokNext(VarEntries(buf)[i], EQ).more
               /\ \A j \in 1..Len(VarEntries(buf)) :
                      TokNext(VarEntries(buf)[i], EQ).tok
                          = TokNext(VarEntries(buf)[j], EQ).tok => i = j

\* What C16 says of one set of k to v on record s, and of the set of k to
\* the empty value after it.
RoundTrip(s, k, v) ==
    LET m1 == SetVarOf(St, s, k, v)
        m2 == SetVarOf(m1, s, k, <<>>)
    IN  m1.ret =>
            /\ svc_get_var(m1, s, k) = [found |-> TRUE, val |-> v]
            /\ \A k2 \in (VarKeys \cup {<<"triggers">>}) \ {k} :
                   svc_get_var(m1, s, k2) = svc_get_var(St, s, k2)
            /\ ~svc_get_var(m2, s, k).found
            /\ ~svc_get_var(St, s, k).found => m2.svc[s].vars = svc[s].vars

\* C16: for every key k and non-empty value v there is room for, after
\* set_var(k, v) the lookup of k yields v and every other key has the value
\* it had, wherever k's entry lies and whether k was absent or had a
\* shorter or longer value; set_var(k, empty) then removes k, and the
\* buffer is what it was before the first set if k was absent then; in
\* every state the buffer is a sequence of name=value NUL entries with no
\* key twice.
C16_RoundTrip ==
    \A s \in svc_list :
        /\ VarsWellFormed(svc[s].vars)
        /\ \A k \in VarKeys, v \in VarValues : RoundTrip(s, k, v)

\* The names svc_iter_next is asked to go on from.
IterNames ==
    {<<>>, <<"Z">>, <<"a">>, <<"a", "a">>, <<"a", "b">>, <<"b">>,
     <<"b", "-">>, <<"c">>}

\* r is the live record with the least name above name, or none when no
\* live record has a name above it.
LeastAbove(r, name) ==
    IF \A x \in svc_list : strseg_cmp(svc[x].name, name) <= 0
    THEN r = NULL
    ELSE /\ r \in svc_list
         /\ strseg_cmp(svc[r].name, name) > 0
         /\ \A x \in svc_list :
                strseg_cmp(svc[x].name, name) > 0 =>
                    strseg_cmp(svc[r].name, svc[x].name) <= 0

\* C17: svc_iter_next(record, _) returns the live record with the least
\* name strictly above the record's, svc_iter_next(none, from_name) the
\* live record with the least name strictly above from_name, whether
\* from_name names a record or not, and both return none when there is no
\* such record.
C17_IterNext ==
    /\ \A s \in svc_list, from \in IterNames :
           \A r \in svc_iter_next(St, s, from) : LeastAbove(r, svc[s].name)
    /\ \A from \in IterNames :
           \A r \in svc_iter_next(St, NULL, from) : LeastAbove(r, from)

\* The records a and b are live: from a, from "aa" and from "ab" the next
\* is b, from b there is none, and from "Z" and "" it is a.
C17_Witness ==
    \E s \in svc_list, x \in svc_list :
        /\ svc[s].name = <<"a">>
        /\ svc[x].name = <<"b">>
        /\ svc_iter_next(St, s, <<>>) = {x}
        /\ svc_iter_next(St, NULL, <<"a">>) = {x}
        /\ svc_iter_next(St, NULL, <<"a", "b">>) = {x}
        /\ svc_iter_next(St, NULL, <<"b">>) = {NULL}
        /\ svc_iter_next(St, NULL, <<"Z">>) = {s}
        /\ svc_iter_next(St, NULL, <<>>) = {s}

\* C25: in pool mode the bytes svc_set_var may write for a record, from
\* vars.data up to the capacity of its room check, lie inside the record's
\* slot and on no other field of the record than the rest of name_buf: they
\* end before the descriptor `name`, the first field after name_buf, and
\* no accepted sequence of sets has written over the descriptors.
C25_PoolWriteRange ==
    PoolOn(St) =>
        \A s \in svc_list :
            /\ VarsOffset(svc[s]) + SetVarBufSize(St, s) <= svc_pool_size_each
            /\ VarsOffset(svc[s]) + SetVarBufSize(St, s) <= OffsetofName
            /\ svc[s].name # Wild
            /\ svc[s].vars # Wild

\* C22: whenever a public operation has returned, a record is on the active
\* list if and only if its state is START or REAPED.
C22_ActiveIffPending ==
    \A s \in svc_list :
        OnActive(St, s) <=> svc[s].state \in {SVC_STATE_START, SVC_STATE_REAPED}

\* Two records, one in START or REAPED and on the list, the other launched
\* (UP) and taken off the list by the sweep.
C22_Witness ==
    \E s, x \in svc_list :
        /\ svc[s].state \in {SVC_STATE_START, SVC_STATE_REAPED}
        /\ OnActive(St, s)
        /\ svc[x].state = SVC_STATE_UP
        /\ hist[x].launched >= 0
        /\ ~OnActive(St, x)

\* C23: with the OS handing out again the pids of reaped children, no two
\* records hold the same non-zero pid, and for a record that is UP with a
\* running child svc_by_pid of the child's pid returns that record and no
\* other, so that the reap notification reaches it.
C23_PidReuse ==
    \A s \in svc_list :
        /\ \A x \in svc_list \ {s} :
               svc[s].pid # 0 => svc[x].pid # svc[s].pid
        /\ (svc[s].state = SVC_STATE_UP /\ svc[s].pid \in children)
               => svc_by_pid(St, svc[s].pid) = {s}

\* The remap has left slot k (from 0) as the fds specification asks: on the
\* open file its name resolved to at the entry, closed for a dash.
SlotPlaced(c, k) == c.files[k] = c.want[k + 1]

\* The source of slot k is still where fd_list says, on its own file.
SourceIntact(c, k) ==
    c.fd_list[k + 1] >= 0 =>
        /\ c.fd_list[k + 1] \in Fds
        /\ c.files[c.fd_list[k + 1]] = c.want[k + 1]

\* C21: for every fds specification of N names, after phase A every source
\* descriptor that is not closed is >= N; during phase B no source is
\* overwritten before it has been placed; after phase B slot i refers to the
\* open file the i-th name resolved to before the remap, or is closed when
\* the i-th name is a dash.
C21_FdRemap ==
    /\ (child.pc = "phaseB" /\ child.i = 0) =>
           \A k \in 0..(child.fd_count - 1) :
               child.fd_list[k + 1] >= 0 => child.fd_list[k + 1] >= child.fd_count
    /\ child.pc = "phaseB" =>
           \A k \in child.i..(child.fd_count - 1) : SourceIntact(child, k)
    /\ child.pc \in {"closerest", "exec"} =>
           \A k \in 0..(child.fd_count - 1) : SlotPlaced(child, k)

\* The same for the runs in which fd_list holds what was stored in it.
FdRemapIfKept == child.kept => C21_FdRemap

\* A run with sources below N, displaced and then placed in another order.
FdRemapKeptCase ==
    /\ child.pc = "exec"
    /\ child.kept
    /\ child.fd_count = MaxFdNames
    /\ child.fd_spec = <<"null", TAB, "y", TAB, "x">>
    /\ child.fdnum = [a \in RegNames |->
                        IF a = <<"x">> THEN 0 ELSE IF a = <<"y">> THEN 1 ELSE 2]

\* C24: with svc_run_active called again and again, the clock advancing,
\* fork succeeding in the end and no cancel or delete, a record with
\* auto_restart whose child has been reaped (REAPED) is eventually UP again,
\* with the pid of a child that is running.
C24_RestartLiveness ==
    \A s \in Slots :
        (svc[s].state = SVC_STATE_REAPED /\ svc[s].auto_restart)
            ~> (svc[s].state = SVC_STATE_UP /\ svc[s].pid \in children)

\* A record with auto_restart that has been launched and reaped, and now
\* waits in START for the time of its restart.
C24_Witness ==
    \E s \in svc_list :
        /\ svc[s].auto_restart
        /\ hist[s].launched >= 0
        /\ svc[s].state = SVC_STATE_START
        /\ svc[s].start_time - wake.now > 0
        /\ svc[s].restart_interval = Sec

====
